---- MODULE Spec2Model ----
(***************************************************************************)
(* Task-Scheduler: the closable FIFO JobQueue (src/src/job_queue.cpp) and  *)
(* the ThreadPool that owns one queue and a vector of worker threads       *)
(* (src/src/thread_pool.cpp).                                              *)
(*                                                                         *)
(* Every block of code that runs with JobQueue::mtx held is one atomic     *)
(* step; reads and writes of the atomic `running` flag and the unlocked    *)
(* read of `closed` in is_closed() are steps of their own, so every        *)
(* interleaving of the callers and the workers is explored.  The read of   *)
(* `closed` in is_closed() is not ordered with the write in shutdown();    *)
(* it yields the old or the new value, which is what placing the read      *)
(* before or after the write step gives.                                   *)
(*                                                                         *)
(* Four specifications share the variables:                                *)
(*   QSpec    a JobQueue used directly by producer and consumer threads    *)
(*            (the setting of tests/test_job_queue.cpp);                   *)
(*   Spec     a ThreadPool driven through its public interface by two      *)
(*            client threads whose calls interleave;                       *)
(*   SeqSpec  a ThreadPool driven by one client thread, one call after     *)
(*            the other (the setting of tests/test_thread_pool.cpp and of  *)
(*            src/main.cpp), with more jobs than Spec affords.             *)
(*   RaceSpec a ThreadPool used by a thread that starts it and submits     *)
(*            jobs and a thread that shuts it down, both at once.          *)
(***************************************************************************)
EXTENDS Integers, Sequences, FiniteSets, TLC

\* ------------------------------------------------------------------ bounds
\* Number of job handles ever passed to push (handle ids 1..MaxJobs).
MaxJobs == 3
\* Number of job handles ever passed to push while two clients use the pool.
MaxConcJobs == 2
\* Number of threads ever created (thread ids 1..MaxThreads).
MaxThreads == 2

\* The client threads that call the pool's interface concurrently.
Callers == {"c1", "c2"}

Handles == 1..MaxJobs
Threads == 1..MaxThreads

\* What a unique_ptr<IJob> handed to push can be: a job whose execute()
\* returns ("ok"), a job whose execute() throws a std::exception ("throw"), a
\* job whose execute() throws something that is not a std::exception
\* ("throwOther"), or an empty (null) handle ("null").
JobKinds == {"ok", "throw", "throwOther", "null"}

\* The default-constructed `data` that pop returns when it removes nothing.
Sentinel == 0

VARIABLES
    buffer,     \* JobQueue::buffer, a sequence of handle ids
    closed,     \* JobQueue::closed
    kind,       \* handle id -> what the handle holds ("none" before its push)
    nextH,      \* id of the next handle pushed: ids follow push order
    popped,     \* history: the handles removed by pop, in removal order
    closeCalls, \* history: number of JobQueue::shutdown() calls so far, capped at 2
    tstate,     \* thread id -> where the thread is: "unborn", "pop" (about to call
                \* pop), "waiting" (blocked in cv.wait), "woken" (left cv.wait, not
                \* yet holding the mutex), "got" (pop returned), "exec" (inside
                \* execute), "exited" (left threadLoop), "joined", "aborted"
    tjob,       \* thread id -> the value pop returned to it (Sentinel if none)
    execCount,  \* handle id -> number of times execute() was started on it
    running,    \* ThreadPool::running
    threads,    \* ThreadPool::threads, a sequence of thread ids
    nextT,      \* id of the next thread created
    pc,         \* caller -> position inside the pool operation it is in
    cop,        \* caller -> the pool operation it is in ("none" when idle)
    cidx,       \* caller -> index of join()'s range-for over threads
    cret,       \* caller -> what its last tryEnqueue returned
    cadmit      \* history: caller -> running /\ ~closed when its last tryEnqueue began

qvars == <<buffer, closed, kind, nextH, popped, closeCalls, tstate, tjob>>
pvars == <<execCount, running, threads, nextT, pc, cop, cidx, cret, cadmit>>
cvars == <<pc, cop, cidx, cret, cadmit>>
vars  == <<buffer, closed, kind, nextH, popped, closeCalls, tstate, tjob,
           execCount, running, threads, nextT, pc, cop, cidx, cret, cadmit>>

\* ------------------------------------------------------------------ helpers
Min(a, b) == IF a < b THEN a ELSE b

Range(s) == {s[i] : i \in 1..Len(s)}

\* `!job` in threadLoop: true of the sentinel and of a stored null handle.
IsNullPtr(r) == r = Sentinel \/ kind[r] = "null"

\* std::terminate has not been called: once it has, the process is gone and no
\* thread takes another step.
ProcessAlive == \A t \in Threads : tstate[t] # "aborted"

\* ------------------------------------------------------------------ JobQueue
\* (variant: the job is put at the front of the deque)
PushFront(buf, h) == <<h>> \o buf

\* buffer.emplace_back(std::move(job))
PushBack(buf, h) == Append(buf, h)

\* (variant: push does not notify)
NotifyNobody(ts) == {ts}

\* (variant: push calls notify_all)
NotifyEvery(ts) ==
    {[t \in Threads |-> IF ts[t] = "waiting" THEN "woken" ELSE ts[t]]}

\* cv.notify_one(): wakes one of the threads blocked in cv.wait, if any.
NotifyOne(ts) ==
    IF \E t \in Threads : ts[t] = "waiting"
    THEN {[ts EXCEPT ![t] = "woken"] : t \in {u \in Threads : ts[u] = "waiting"}}
    ELSE {ts}

\* (variant: shutdown calls notify_one, which wakes a single blocked thread)
NotifyFirst(ts) ==
    IF \E t \in Threads : ts[t] = "waiting"
    THEN [ts EXCEPT ![CHOOSE t \in Threads : ts[t] = "waiting"] = "woken"]
    ELSE ts

\* cv.notify_all(): wakes every thread blocked in cv.wait.
NotifyAll(ts) == [t \in Threads |-> IF ts[t] = "waiting" THEN "woken" ELSE ts[t]]

\* The predicate of cv.wait in pop.
PopWaitPred(cl, buf) == cl \/ buf # <<>>

\* `if (closed && buffer.empty()) return data;`
PopReturnsEmpty(cl, buf) == cl /\ buf = <<>>

\* (variant: pop moves out the back of the deque and pops the front)
PopReturnBack(cl, buf) == IF cl /\ buf = <<>> THEN Sentinel ELSE buf[Len(buf)]

\* What pop returns once its wait is over.
PopReturn(cl, buf) == IF PopReturnsEmpty(cl, buf) THEN Sentinel ELSE Head(buf)

\* (variant: pop forgets buffer.pop_front())
PopKeepsHead(cl, buf) == buf

\* What pop leaves in the buffer: buffer.pop_front() unless it returned early.
PopRest(cl, buf) == IF PopReturnsEmpty(cl, buf) THEN buf ELSE Tail(buf)

\* (variant: shutdown flips the flag)
ShutdownToggles(cl) == ~cl

\* `closed = true;` in JobQueue::shutdown
ShutdownClosed(cl) == TRUE

\* (variant: clear leaves the front of the deque in place)
ClearKeepsFront(buf) == <<Head(buf)>>

\* buffer.clear()
ClearBuffer(buf) == <<>>

\* (variant: push drops the job when the queue is closed)
QueuePushIfOpen(k) ==
    /\ nextH <= MaxJobs
    /\ IF closed
       THEN UNCHANGED <<buffer, kind, nextH, tstate>>
       ELSE /\ buffer' = Append(buffer, nextH)
            /\ kind' = [kind EXCEPT ![nextH] = k]
            /\ nextH' = nextH + 1
            /\ tstate' \in NotifyOne(tstate)
    /\ UNCHANGED <<closed, popped, closeCalls, tjob>>

\* JobQueue::push(job) for a fresh handle of kind k.
QueuePush(k) ==
    /\ nextH <= MaxJobs
    /\ buffer' = PushBack(buffer, nextH)
    /\ kind' = [kind EXCEPT ![nextH] = k]
    /\ nextH' = nextH + 1
    /\ tstate' \in NotifyOne(tstate)
    /\ UNCHANGED <<closed, popped, closeCalls, tjob>>

\* The locked part of JobQueue::pop from the evaluation of the wait predicate on:
\* either the thread blocks in cv.wait, or pop returns.
QueuePopStep(t) ==
    IF PopWaitPred(closed, buffer)
    THEN /\ tstate' = [tstate EXCEPT ![t] = "got"]
         /\ tjob' = [tjob EXCEPT ![t] = PopReturn(closed, buffer)]
         /\ buffer' = PopRest(closed, buffer)
         /\ popped' = IF PopReturnsEmpty(closed, buffer)
                      THEN popped
                      ELSE Append(popped, PopReturn(closed, buffer))
         /\ UNCHANGED <<closed, kind, nextH, closeCalls>>
    ELSE /\ tstate' = [tstate EXCEPT ![t] = "waiting"]
         /\ UNCHANGED <<buffer, closed, kind, nextH, popped, closeCalls, tjob>>

\* JobQueue::shutdown()
QueueShutdown ==
    /\ closed' = ShutdownClosed(closed)
    /\ closeCalls' = Min(closeCalls + 1, 2)
    /\ tstate' = NotifyAll(tstate)
    /\ UNCHANGED <<buffer, kind, nextH, popped, tjob>>

\* JobQueue::clear()
QueueClear ==
    /\ buffer' = ClearBuffer(buffer)
    /\ UNCHANGED <<closed, kind, nextH, popped, closeCalls, tstate, tjob>>

\* A thread calls pop().
PopCall(t) ==
    /\ ProcessAlive
    /\ tstate[t] = "pop"
    /\ QueuePopStep(t)
    /\ UNCHANGED pvars

\* A thread that left cv.wait re-acquires the lock and re-evaluates the predicate.
PopResume(t) ==
    /\ ProcessAlive
    /\ tstate[t] = "woken"
    /\ QueuePopStep(t)
    /\ UNCHANGED pvars

\* cv.wait may return without a notification.
SpuriousWakeup(t) ==
    /\ ProcessAlive
    /\ tstate[t] = "waiting"
    /\ tstate' = [tstate EXCEPT ![t] = "woken"]
    /\ UNCHANGED <<buffer, closed, kind, nextH, popped, closeCalls, tjob>>
    /\ UNCHANGED pvars

\* ------------------------------------------------------------------ QSpec
\* A consumer thread of a bare JobQueue drops what pop returned and may pop again.
ConsumerDone(t) ==
    /\ tstate[t] = "got"
    /\ tstate' = [tstate EXCEPT ![t] = "pop"]
    /\ tjob' = [tjob EXCEPT ![t] = Sentinel]
    /\ UNCHANGED <<buffer, closed, kind, nextH, popped, closeCalls>>
    /\ UNCHANGED pvars

ProducerPush(k) ==
    /\ QueuePush(k)
    /\ UNCHANGED pvars

DirectShutdown ==
    /\ QueueShutdown
    /\ UNCHANGED pvars

DirectClear ==
    /\ buffer # <<>>
    /\ QueueClear
    /\ UNCHANGED pvars

PoolInit ==
    /\ execCount = [h \in Handles |-> 0]
    /\ running = FALSE
    /\ threads = <<>>
    /\ nextT = 1
    /\ pc = [c \in Callers |-> "idle"]
    /\ cop = [c \in Callers |-> "none"]
    /\ cidx = [c \in Callers |-> 0]
    /\ cret = [c \in Callers |-> "none"]
    /\ cadmit = [c \in Callers |-> FALSE]

QueueInit ==
    /\ buffer = <<>>
    /\ closed = FALSE
    /\ kind = [h \in Handles |-> "none"]
    /\ nextH = 1
    /\ popped = <<>>
    /\ closeCalls = 0
    /\ tjob = [t \in Threads |-> Sentinel]

\* A default-constructed JobQueue and consumer threads that have not called pop yet.
QInit ==
    /\ QueueInit
    /\ tstate = [t \in Threads |-> "pop"]
    /\ PoolInit

QNext ==
    \/ \E k \in JobKinds : ProducerPush(k)
    \/ \E t \in Threads : PopCall(t)
    \/ \E t \in Threads : PopResume(t)
    \/ \E t \in Threads : SpuriousWakeup(t)
    \/ \E t \in Threads : ConsumerDone(t)
    \/ DirectShutdown
    \/ DirectClear

QSpec == QInit /\ [][QNext]_vars

\* A thread that left cv.wait gets the mutex again.
FairQSpec == QSpec /\ \A t \in Threads : WF_vars(PopResume(t))

\* ------------------------------------------------------------------ ThreadPool
\* (variant: start does not force a worker when asked for none)
WorkerCountAsGiven(n) == n

\* `if (number_workers == 0) number_workers = 1;`
WorkerCount(n) == IF n = 0 THEN 1 ELSE n

\* size()
size == Len(threads)

\* isRunning()
isRunning == running

\* The start() calls in progress other than c's: each still creates at least one thread.
OtherStarts(c) == Cardinality({d \in Callers \ {c} : cop[d] = "start"})

\* The values of number_workers that start() can be entered with: the model creates
\* at most MaxThreads threads in all.
StartArgs(c) == {n \in 0..MaxThreads :
                    (nextT - 1) + OtherStarts(c) + WorkerCount(n) <= MaxThreads}

\* A client thread enters a pool operation.
Call(c, op, first) ==
    /\ ProcessAlive
    /\ pc[c] = "idle"
    /\ pc' = [pc EXCEPT ![c] = first]
    /\ cop' = [cop EXCEPT ![c] = op]
    /\ cidx' = [cidx EXCEPT ![c] = IF op = "join" THEN 1 ELSE 0]
    /\ cret' = [cret EXCEPT ![c] = "none"]
    /\ cadmit' = [cadmit EXCEPT ![c] = FALSE]
    /\ UNCHANGED <<execCount, running, threads, nextT>>
    /\ UNCHANGED qvars

\* The operation returns to the client.
Return(c, r) ==
    /\ pc' = [pc EXCEPT ![c] = "idle"]
    /\ cop' = [cop EXCEPT ![c] = "none"]
    /\ cidx' = [cidx EXCEPT ![c] = 0]
    /\ cret' = [cret EXCEPT ![c] = r]

Goto(c, next) ==
    /\ pc' = [pc EXCEPT ![c] = next]
    /\ UNCHANGED <<cop, cidx, cret>>

CallStart(c) ==
    /\ StartArgs(c) # {}
    /\ Call(c, "start", "check")

\* The enqueue and tryEnqueue calls in progress: each may still push one handle.
PendingPushes == Cardinality({d \in Callers : cop[d] \in {"enqueue", "tryEnqueue"}})

\* m bounds the handles pushed in all.
CallEnqueue(c, m) ==
    /\ nextH + PendingPushes <= m
    /\ Call(c, "enqueue", "push")

CallTryEnqueue(c, m) ==
    /\ nextH + PendingPushes <= m
    /\ Call(c, "tryEnqueue", "rd_running")

CallShutdown(c) == Call(c, "shutdown", "check")

CallShutdownNow(c) == Call(c, "shutdownNow", "check")

CallJoin(c) == Call(c, "join", "join")

\* (variant: start does not look at running)
NeverRunning(r) == FALSE

\* `if (running)` in start
AlreadyRunning(r) == r

\* start: `if (running) return;`
StartCheck(c) ==
    /\ ProcessAlive
    /\ cop[c] = "start" /\ pc[c] = "check"
    /\ IF AlreadyRunning(running) THEN Return(c, "none") ELSE Goto(c, "set")
    /\ UNCHANGED cadmit
    /\ UNCHANGED <<execCount, running, threads, nextT>>
    /\ UNCHANGED qvars

\* (variant: start creates its threads without setting running)
RunningLeft(r) == r

\* `running = true;` in start
RunningSet(r) == TRUE

\* start: `running = true;`
StartSet(c) ==
    /\ ProcessAlive
    /\ cop[c] = "start" /\ pc[c] = "set"
    /\ running' = RunningSet(running)
    /\ Goto(c, "spawn")
    /\ UNCHANGED cadmit
    /\ UNCHANGED <<execCount, threads, nextT>>
    /\ UNCHANGED qvars

\* The thread ids that start(n) appends to threads.
Spawned(n) == [i \in 1..WorkerCount(n) |-> nextT + i - 1]

\* start(n): the loop that creates the workers; each begins threadLoop at its
\* first pop.  n is the argument the call was made with.
StartSpawn(c, n) ==
    /\ ProcessAlive
    /\ cop[c] = "start" /\ pc[c] = "spawn"
    /\ n \in StartArgs(c)
    /\ threads' = threads \o Spawned(n)
    /\ nextT' = nextT + WorkerCount(n)
    /\ tstate' = [t \in Threads |->
                    IF t \in Range(Spawned(n)) THEN "pop" ELSE tstate[t]]
    /\ Return(c, "none")
    /\ UNCHANGED cadmit
    /\ UNCHANGED <<execCount, running>>
    /\ UNCHANGED <<buffer, closed, kind, nextH, popped, closeCalls, tjob>>

\* enqueue(job): `queue.push(std::move(job));`  tryEnqueue(job): the same after
\* its checks.  k is what the handle the call was made with holds.
PoolPush(c, k) ==
    /\ ProcessAlive
    /\ cop[c] \in {"enqueue", "tryEnqueue"} /\ pc[c] = "push"
    /\ QueuePush(k)
    /\ Return(c, IF cop[c] = "tryEnqueue" THEN "true" ELSE "none")
    /\ UNCHANGED cadmit
    /\ UNCHANGED <<execCount, running, threads, nextT>>

\* (variant: tryEnqueue does not look at running)
NeverStopped(r) == FALSE

\* `!running.load(std::memory_order_acquire)`
NotRunning(r) == ~r

\* (variant: is_closed() always answers false)
NeverClosed(cl) == FALSE

\* JobQueue::is_closed()
is_closed(cl) == cl

\* tryEnqueue begins: `if (!running.load(...)) return false;`
TryEnqueueRunning(c) ==
    /\ ProcessAlive
    /\ cop[c] = "tryEnqueue" /\ pc[c] = "rd_running"
    /\ IF NotRunning(running) THEN Return(c, "false") ELSE Goto(c, "rd_closed")
    /\ cadmit' = [cadmit EXCEPT ![c] = running /\ ~closed]
    /\ UNCHANGED <<execCount, running, threads, nextT>>
    /\ UNCHANGED qvars

\* tryEnqueue: `if (queue.is_closed()) return false;`
TryEnqueueClosed(c) ==
    /\ ProcessAlive
    /\ cop[c] = "tryEnqueue" /\ pc[c] = "rd_closed"
    /\ IF is_closed(closed) THEN Return(c, "false") ELSE Goto(c, "push")
    /\ UNCHANGED cadmit
    /\ UNCHANGED <<execCount, running, threads, nextT>>
    /\ UNCHANGED qvars

\* (variant: shutdown and shutdownNow do not look at running)
NeverIdle(r) == FALSE

\* `if (!running)` in shutdown and shutdownNow
PoolIdle(r) == ~r

\* shutdown, shutdownNow: `if (!running) return;`
ShutdownCheck(c) ==
    /\ ProcessAlive
    /\ cop[c] \in {"shutdown", "shutdownNow"} /\ pc[c] = "check"
    /\ IF PoolIdle(running) THEN Return(c, "none") ELSE Goto(c, "stop")
    /\ UNCHANGED cadmit
    /\ UNCHANGED <<execCount, running, threads, nextT>>
    /\ UNCHANGED qvars

\* (variant: shutdown closes the queue without a drain wait)
AfterStopNoDrain(op) == "close"

\* What follows `running = false;`: the drain loop in shutdown, queue.shutdown()
\* in shutdownNow.
AfterStop(op) == IF op = "shutdown" THEN "drain" ELSE "close"

\* shutdown, shutdownNow: `running = false;`
ShutdownStop(c) ==
    /\ ProcessAlive
    /\ cop[c] \in {"shutdown", "shutdownNow"} /\ pc[c] = "stop"
    /\ running' = FALSE
    /\ Goto(c, AfterStop(cop[c]))
    /\ UNCHANGED cadmit
    /\ UNCHANGED <<execCount, threads, nextT>>
    /\ UNCHANGED qvars

\* shutdown: `while (!queue.empty())` finds the queue empty.
ShutdownDrained(c) ==
    /\ ProcessAlive
    /\ cop[c] = "shutdown" /\ pc[c] = "drain"
    /\ buffer = <<>>
    /\ Goto(c, "close")
    /\ UNCHANGED cadmit
    /\ UNCHANGED <<execCount, running, threads, nextT>>
    /\ UNCHANGED qvars

\* shutdown: the queue is not empty and more than a second has passed: `break`.
\* (An iteration that sleeps and tests again changes nothing: a stuttering step.)
ShutdownTimeout(c) ==
    /\ ProcessAlive
    /\ cop[c] = "shutdown" /\ pc[c] = "drain"
    /\ buffer # <<>>
    /\ Goto(c, "close")
    /\ UNCHANGED cadmit
    /\ UNCHANGED <<execCount, running, threads, nextT>>
    /\ UNCHANGED qvars

\* shutdown, shutdownNow: `queue.shutdown();` and then join() is entered.
ShutdownClose(c) ==
    /\ ProcessAlive
    /\ cop[c] \in {"shutdown", "shutdownNow"} /\ pc[c] = "close"
    /\ QueueShutdown
    /\ pc' = [pc EXCEPT ![c] = "join"]
    /\ cidx' = [cidx EXCEPT ![c] = 1]
    /\ UNCHANGED <<cop, cret, cadmit>>
    /\ UNCHANGED <<execCount, running, threads, nextT>>

\* (variant: thread.join() returns without waiting for the thread)
JoinsAtOnce(st) == TRUE

\* thread.join() returns once the thread has left its function, threadLoop.
HasExited(st) == st = "exited"

\* join: one iteration of the loop: `if (thread.joinable()) thread.join();`
\* thread.join() returns once the thread has left threadLoop.
JoinOne(c) ==
    /\ ProcessAlive
    /\ pc[c] = "join" /\ cidx[c] >= 1 /\ cidx[c] <= Len(threads)
    /\ LET t == threads[cidx[c]] IN
          IF tstate[t] = "joined"
          THEN UNCHANGED tstate
          ELSE /\ HasExited(tstate[t])
               /\ tstate' = [tstate EXCEPT ![t] = "joined"]
    /\ cidx' = [cidx EXCEPT ![c] = cidx[c] + 1]
    /\ UNCHANGED <<pc, cop, cret, cadmit>>
    /\ UNCHANGED <<execCount, running, threads, nextT>>
    /\ UNCHANGED <<buffer, closed, kind, nextH, popped, closeCalls, tjob>>

\* (variant: join forgets threads.clear())
ThreadsKept(ths) == ths

\* threads.clear()
ThreadsCleared(ths) == <<>>

\* ~thread() of a std::thread that is still joinable calls std::terminate:
\* the thread states after the elements of ths have been destroyed.
Destroyed(ths, ts) ==
    [t \in Threads |->
        IF t \in Range(ths) /\ ts[t] # "joined" THEN "aborted" ELSE ts[t]]

\* join: the loop is over: `threads.clear();` and the operation returns.  A
\* thread that start() appended while the loop was running has not been joined.
JoinClear(c) ==
    /\ ProcessAlive
    /\ pc[c] = "join" /\ cidx[c] > Len(threads)
    /\ threads' = ThreadsCleared(threads)
    /\ tstate' = Destroyed(threads, tstate)
    /\ Return(c, "none")
    /\ UNCHANGED cadmit
    /\ UNCHANGED <<execCount, running, nextT>>
    /\ UNCHANGED <<buffer, closed, kind, nextH, popped, closeCalls, tjob>>

\* ------------------------------------------------------------------ threadLoop
\* (variant: the handler is `catch (...)`, which catches whatever is thrown)
AfterExecuteCatchAll(k) == "pop"

\* Where the worker is after `job->execute()`: a normal return and a
\* std::exception caught by `catch (const std::exception& e)` both reach the end
\* of the loop body, then pop again.  Anything else that is thrown leaves
\* threadLoop, the thread's function: std::terminate ends the process.
AfterExecute(k) == IF k = "throwOther" THEN "aborted" ELSE "pop"

\* threadLoop: `if (!job) break;` else execute() is entered.
WorkerTest(t) ==
    /\ ProcessAlive
    /\ tstate[t] = "got"
    /\ IF IsNullPtr(tjob[t])
       THEN /\ tstate' = [tstate EXCEPT ![t] = "exited"]
            /\ tjob' = [tjob EXCEPT ![t] = Sentinel]
            /\ UNCHANGED execCount
       ELSE /\ tstate' = [tstate EXCEPT ![t] = "exec"]
            /\ execCount' = [execCount EXCEPT ![tjob[t]] = @ + 1]
            /\ UNCHANGED tjob
    /\ UNCHANGED <<buffer, closed, kind, nextH, popped, closeCalls>>
    /\ UNCHANGED <<running, threads, nextT>>
    /\ UNCHANGED cvars

\* threadLoop: execute() returns.
WorkerExecuteReturn(t) ==
    /\ ProcessAlive
    /\ tstate[t] = "exec" /\ kind[tjob[t]] = "ok"
    /\ tstate' = [tstate EXCEPT ![t] = AfterExecute("ok")]
    /\ tjob' = [tjob EXCEPT ![t] = Sentinel]
    /\ UNCHANGED <<buffer, closed, kind, nextH, popped, closeCalls>>
    /\ UNCHANGED pvars

\* threadLoop: execute() throws and the catch clause logs the error.
WorkerExecuteThrow(t) ==
    /\ ProcessAlive
    /\ tstate[t] = "exec" /\ kind[tjob[t]] = "throw"
    /\ tstate' = [tstate EXCEPT ![t] = AfterExecute("throw")]
    /\ tjob' = [tjob EXCEPT ![t] = Sentinel]
    /\ UNCHANGED <<buffer, closed, kind, nextH, popped, closeCalls>>
    /\ UNCHANGED pvars

\* threadLoop: execute() throws something that `catch (const std::exception&)`
\* does not catch.
WorkerExecuteEscapes(t) ==
    /\ ProcessAlive
    /\ tstate[t] = "exec" /\ kind[tjob[t]] = "throwOther"
    /\ tstate' = [tstate EXCEPT ![t] = AfterExecute("throwOther")]
    /\ tjob' = [tjob EXCEPT ![t] = Sentinel]
    /\ UNCHANGED <<buffer, closed, kind, nextH, popped, closeCalls>>
    /\ UNCHANGED pvars

\* ------------------------------------------------------------------ Spec
\* A default-constructed ThreadPool: not running, no threads, an open empty queue.
Init ==
    /\ QueueInit
    /\ tstate = [t \in Threads |-> "unborn"]
    /\ PoolInit

Next ==
    \/ \E c \in Callers : CallStart(c)
    \/ \E c \in Callers : CallEnqueue(c, MaxConcJobs)
    \/ \E c \in Callers : CallTryEnqueue(c, MaxConcJobs)
    \/ \E c \in Callers : CallShutdown(c)
    \/ \E c \in Callers : CallShutdownNow(c)
    \/ \E c \in Callers : CallJoin(c)
    \/ \E c \in Callers : StartCheck(c)
    \/ \E c \in Callers : StartSet(c)
    \/ \E c \in Callers, n \in 0..MaxThreads : StartSpawn(c, n)
    \/ \E c \in Callers, k \in JobKinds : PoolPush(c, k)
    \/ \E c \in Callers : TryEnqueueRunning(c)
    \/ \E c \in Callers : TryEnqueueClosed(c)
    \/ \E c \in Callers : ShutdownCheck(c)
    \/ \E c \in Callers : ShutdownStop(c)
    \/ \E c \in Callers : ShutdownDrained(c)
    \/ \E c \in Callers : ShutdownTimeout(c)
    \/ \E c \in Callers : ShutdownClose(c)
    \/ \E c \in Callers : JoinOne(c)
    \/ \E c \in Callers : JoinClear(c)
    \/ \E t \in Threads : PopCall(t)
    \/ \E t \in Threads : PopResume(t)
    \/ \E t \in Threads : SpuriousWakeup(t)
    \/ \E t \in Threads : WorkerTest(t)
    \/ \E t \in Threads : WorkerExecuteReturn(t)
    \/ \E t \in Threads : WorkerExecuteThrow(t)
    \/ \E t \in Threads : WorkerExecuteEscapes(t)

Spec == Init /\ [][Next]_vars

\* ------------------------------------------------------------------ SeqSpec
\* The one client thread of SeqSpec.
Client == "c1"

\* A step of the client inside the operation it has entered.
ClientStep ==
    \/ StartCheck(Client)
    \/ StartSet(Client)
    \/ \E n \in 0..MaxThreads : StartSpawn(Client, n)
    \/ \E k \in JobKinds : PoolPush(Client, k)
    \/ TryEnqueueRunning(Client)
    \/ TryEnqueueClosed(Client)
    \/ ShutdownCheck(Client)
    \/ ShutdownStop(Client)
    \/ ShutdownDrained(Client)
    \/ ShutdownTimeout(Client)
    \/ ShutdownClose(Client)
    \/ JoinOne(Client)
    \/ JoinClear(Client)

\* A step of worker thread t.
WorkerStep(t) ==
    \/ PopCall(t)
    \/ PopResume(t)
    \/ WorkerTest(t)
    \/ WorkerExecuteReturn(t)
    \/ WorkerExecuteThrow(t)
    \/ WorkerExecuteEscapes(t)

SeqNext ==
    \/ CallStart(Client)
    \/ CallEnqueue(Client, MaxJobs)
    \/ CallTryEnqueue(Client, MaxJobs)
    \/ CallShutdown(Client)
    \/ CallShutdownNow(Client)
    \/ CallJoin(Client)
    \/ ClientStep
    \/ \E t \in Threads : WorkerStep(t)
    \/ \E t \in Threads : SpuriousWakeup(t)

SeqSpec == Init /\ [][SeqNext]_vars

\* The scheduler runs every thread that can take a step: a worker that is not
\* blocked in cv.wait, and the client inside an operation (whose drain loop ends
\* by its timeout at the latest).  Nothing obliges the client to make a call, and
\* cv.wait need not wake spuriously.
FairSeqSpec ==
    /\ SeqSpec
    /\ \A t \in Threads : WF_vars(WorkerStep(t))
    /\ WF_vars(ClientStep)

\* ------------------------------------------------------------------ RaceSpec
\* Two client threads with a role each: the submitter starts the pool and
\* submits jobs, the stopper shuts the pool down, and their calls interleave.
Submitter == "c1"
Stopper == "c2"

\* A step of caller c inside the operation it has entered.
CallerStep(c) ==
    \/ StartCheck(c)
    \/ StartSet(c)
    \/ \E n \in 0..MaxThreads : StartSpawn(c, n)
    \/ \E k \in JobKinds : PoolPush(c, k)
    \/ TryEnqueueRunning(c)
    \/ TryEnqueueClosed(c)
    \/ ShutdownCheck(c)
    \/ ShutdownStop(c)
    \/ ShutdownDrained(c)
    \/ ShutdownTimeout(c)
    \/ ShutdownClose(c)
    \/ JoinOne(c)
    \/ JoinClear(c)

RaceNext ==
    \/ CallStart(Submitter)
    \/ CallEnqueue(Submitter, MaxConcJobs)
    \/ CallTryEnqueue(Submitter, MaxConcJobs)
    \/ CallShutdown(Stopper)
    \/ CallShutdownNow(Stopper)
    \/ \E c \in Callers : CallerStep(c)
    \/ \E t \in Threads : WorkerStep(t)
    \/ \E t \in Threads : SpuriousWakeup(t)

RaceSpec == Init /\ [][RaceNext]_vars

\* The scheduler runs every worker that is not blocked in cv.wait and every
\* client that is inside an operation.
FairRaceSpec ==
    /\ RaceSpec
    /\ \A t \in Threads : WF_vars(WorkerStep(t))
    /\ \A c \in Callers : WF_vars(CallerStep(c))

\* ================================================================== claims
\* ------------------------------------------------------------------ C1
\* C1: the queue is strictly FIFO.  Handle ids follow the order in which the
\* pushes completed, so: of any two handles that pop has removed, the one pushed
\* first was removed first, i.e. the removal history is in increasing id order.
FifoOrder ==
    \A i, j \in 1..Len(popped) : i < j => popped[i] < popped[j]

\* Two handles have been pushed and both have been popped.
FifoTwoPopped == Len(popped) >= 2

\* ------------------------------------------------------------------ C3
\* A step in which thread t's pop() returns.
PopReturns(t) == tstate[t] \in {"pop", "woken"} /\ tstate'[t] = "got"

\* C3: pop never returns while the buffer is empty and the queue open; it
\* returns a null pointer exactly when, as it returns, the queue is closed and
\* the buffer empty; in every other return it removes and returns the head.
PopReturnContract ==
    [][\A t \in Threads : PopReturns(t) =>
          /\ ~(buffer = <<>> /\ ~closed)
          /\ (tjob'[t] = Sentinel \/ kind[tjob'[t]] = "null")
                <=> (closed /\ buffer = <<>>)
          /\ ~(closed /\ buffer = <<>>) =>
                (tjob'[t] = Head(buffer) /\ buffer' = Tail(buffer))]_vars

\* ------------------------------------------------------------------ C4
\* Thread t is inside pop(), blocked in cv.wait or on its way out of it.
InPop(t) == tstate[t] \in {"waiting", "woken"}

\* No other consumer is present: the other threads are not in a pop() call
\* and hold nothing.
Alone(t) == \A u \in Threads \ {t} : tstate[u] = "pop"

\* Handles that were pushed and then discarded by clear().
Dropped == {h \in 1..(nextH - 1) : h \notin Range(buffer) /\ h \notin Range(popped)}

\* C4: blocking hand-off.  A consumer inside pop() on a queue whose head is h
\* eventually returns h, unless another consumer turns up or h is cleared
\* first; a consumer inside pop() on a closed empty queue eventually returns,
\* and returns the sentinel unless a handle pushed after that moment is there.
BlockingHandoff ==
    /\ \A t \in Threads, h \in Handles :
          (InPop(t) /\ buffer # <<>> /\ Head(buffer) = h /\ Alone(t))
             ~> ((tstate[t] = "got" /\ tjob[t] = h) \/ ~Alone(t) \/ h \in Dropped)
    /\ \A t \in Threads, n \in 1..(MaxJobs + 1) :
          (InPop(t) /\ closed /\ buffer = <<>> /\ nextH = n)
             ~> (tstate[t] = "got" /\ (tjob[t] = Sentinel \/ tjob[t] >= n))

\* A lone consumer that was blocked in pop() has been woken by a push.
HandoffWoken ==
    \E t \in Threads :
        tstate[t] = "woken" /\ Len(buffer) = 1 /\ ~closed /\ Alone(t)

\* ------------------------------------------------------------------ C5
\* C5: once JobQueue::shutdown() has been called the queue never blocks again:
\* no consumer is left blocked in cv.wait, every consumer that was woken
\* returns, and a pop() that evaluates its predicate afterwards returns at
\* once, with the sentinel when the buffer is empty.
ClosedNeverBlocks ==
    /\ [](closed => \A t \in Threads : tstate[t] # "waiting")
    /\ \A t \in Threads : (closed /\ tstate[t] = "woken") ~> (tstate[t] = "got")
    /\ [][\A t \in Threads :
            (closed /\ tstate[t] \in {"pop", "woken"} /\ tstate'[t] # tstate[t])
               => /\ tstate'[t] = "got"
                  /\ buffer = <<>> => tjob'[t] = Sentinel]_vars

\* Two consumers were blocked when the queue was closed: one has returned the
\* sentinel, the other has been woken and not yet returned.
ClosedWokeBoth ==
    \E t, u \in Threads :
        /\ closed /\ buffer = <<>> /\ nextH = 1
        /\ tstate[t] = "woken"
        /\ tstate[u] = "got" /\ tjob[u] = Sentinel

\* ------------------------------------------------------------------ C2
\* C2: every job is executed at most once, by at most one worker, and only
\* after a pop has removed it from the buffer: no handle has had execute()
\* started twice, no two threads hold the same handle, and a handle inside
\* execute() is in the removal history and not in the buffer.
ExecutedAtMostOnce ==
    /\ \A h \in Handles : execCount[h] <= 1
    /\ \A t, u \in Threads : (t # u /\ tjob[t] # Sentinel) => tjob[t] # tjob[u]
    /\ \A t \in Threads : tstate[t] = "exec" =>
          (tjob[t] \notin Range(buffer) /\ tjob[t] \in Range(popped))

\* Two workers are inside execute() at the same time, each with its own job.
TwoWorkersExecuting ==
    \E t, u \in Threads : t # u /\ tstate[t] = "exec" /\ tstate[u] = "exec"

\* ------------------------------------------------------------------ C6
\* C6: closed starts false and is monotonic: no step takes it from true to
\* false, only a JobQueue::shutdown() call sets it, and a second shutdown()
\* leaves closed and the buffer as they were.
ClosedMonotonic ==
    /\ [](closeCalls = 0 => ~closed)
    /\ [][/\ closed => closed'
          /\ (~closed /\ closed') => closeCalls' = closeCalls + 1
          /\ (closeCalls = 1 /\ closeCalls' = 2) =>
                (closed /\ closed' /\ buffer' = buffer)]_vars

\* JobQueue::shutdown() has been called a second time.
ClosedTwice == closeCalls = 2 /\ closed

\* ------------------------------------------------------------------ C7
\* C7: running goes NOT_RUNNING -> RUNNING -> NOT_RUNNING and never back: once
\* the pool has been stopped (running is false and threads have been created)
\* running is not set again, and only the first start() creates threads.
RunningNeverReentered ==
    [][/\ (~running /\ nextT > 1) => ~running'
       /\ nextT' # nextT => nextT = 1]_vars

\* ------------------------------------------------------------------ C8
\* The pool has had a single worker, t.
SingleWorker(t) == threads = <<t>> /\ nextT = 2

\* C8: whatever execute() raises is caught in the worker loop: the worker
\* that ran the job is at its next pop afterwards and is still tracked, so
\* size() is unchanged; and on a single-worker pool every job queued behind
\* a failing job is executed.
FailureIsolated ==
    /\ [][\A t \in Threads :
            (tstate[t] = "exec" /\ tstate'[t] # "exec")
               => (tstate'[t] = "pop" /\ threads' = threads)]_vars
    /\ \A t \in Threads, h \in Handles :
          (/\ SingleWorker(t)
           /\ tstate[t] = "exec" /\ kind[tjob[t]] \in {"throw", "throwOther"}
           /\ h \in Range(buffer) /\ kind[h] # "null")
             ~> (execCount[h] = 1)

\* ------------------------------------------------------------------ C9
\* C9: a null handle is rejected by enqueue, tryEnqueue and push: no null
\* entry is ever stored in the buffer.
NullNeverStored ==
    \A i \in 1..Len(buffer) : kind[buffer[i]] # "null"

\* ------------------------------------------------------------------ C10
\* A step in which caller c's tryEnqueue returns.
TryEnqueueReturns(c) == cop[c] = "tryEnqueue" /\ pc'[c] = "idle"

\* running /\ ~closed as c's tryEnqueue began: the first thing the call does
\* is read running.
AdmissibleAtCall(c) ==
    IF pc[c] = "rd_running" THEN running /\ ~closed ELSE cadmit[c]

\* C10 as stated: tryEnqueue returns false and leaves the buffer alone if
\* running is false or the queue is closed when it is called; otherwise it
\* appends the job at the tail and returns true.
TryEnqueueAdmission ==
    [][\A c \in Callers : TryEnqueueReturns(c) =>
          IF AdmissibleAtCall(c)
          THEN cret'[c] = "true" /\ buffer' = Append(buffer, nextH)
          ELSE cret'[c] = "false" /\ buffer' = buffer]_vars

\* C10 as amended: tryEnqueue returns false and leaves the buffer alone if
\* running is false or the queue is closed when it is called; otherwise it
\* either appends the job at the tail and returns true, or, the queue having
\* been closed before its closed check, returns false and leaves the buffer alone.
TryEnqueueChecks ==
    [][\A c \in Callers : TryEnqueueReturns(c) =>
          IF AdmissibleAtCall(c)
          THEN \/ cret'[c] = "true" /\ buffer' = Append(buffer, nextH)
               \/ cret'[c] = "false" /\ buffer' = buffer /\ closed
          ELSE cret'[c] = "false" /\ buffer' = buffer]_vars

\* A tryEnqueue that began on a running pool with an open queue has returned
\* false without touching the buffer: the queue was closed between its read
\* of running and its read of closed.
TryEnqueueLostRace ==
    \E c \in Callers :
        pc[c] = "idle" /\ cret[c] = "false" /\ cadmit[c] /\ closed

\* ------------------------------------------------------------------ C11
\* The submitter's last call was a tryEnqueue that returned true and pushed
\* handle h (the submitter is the only thread that pushes).
Accepted(h) ==
    pc[Submitter] = "idle" /\ cret[Submitter] = "true" /\ nextH = h + 1

\* C11: every job the pool accepted is eventually executed: once tryEnqueue
\* has returned true for a job, some worker eventually starts execute() on it,
\* also when a shutdown runs concurrently with the submission.  Stated for
\* the runs in which every handle pushed so far holds a job whose execute()
\* returns or throws a std::exception.
AcceptedIsExecuted ==
    \A h \in Handles :
        (Accepted(h) /\ \A g \in Handles : kind[g] \in {"none", "ok", "throw"})
            ~> (execCount[h] >= 1)

\* ------------------------------------------------------------------ C12
\* The pool has been started and no shutdown or shutdownNow call has begun.
StartedNotStopped ==
    /\ running /\ nextT > 1 /\ closeCalls = 0
    /\ cop[Client] \notin {"shutdown", "shutdownNow"}

\* The step in which the client's first shutdown() of a started pool returns.
FirstShutdownReturns ==
    /\ cop[Client] = "shutdown" /\ pc[Client] = "join" /\ pc'[Client] = "idle"
    /\ closeCalls = 1

\* C12: a job that sits in the queue of a started pool before any shutdown
\* call has begun is eventually executed, whatever the number of workers; and
\* when a later shutdown() returns, every job enqueued before it has been
\* executed.
EnqueuedIsExecuted ==
    /\ \A h \in Handles :
          (StartedNotStopped /\ h \in Range(buffer) /\ kind[h] # "null")
             ~> (execCount[h] >= 1)
    /\ [][FirstShutdownReturns =>
            \A h \in 1..(nextH - 1) : kind[h] # "null" => execCount[h] >= 1]_vars

\* ------------------------------------------------------------------ C13
\* shutdown() has returned (the queue is closed, running is false and every
\* worker has been joined) and handle h sits in the buffer, not executed:
\* the state right after an enqueue() made once shutdown() has been called.
Stranded(h) ==
    /\ closed /\ ~running
    /\ \A t \in Threads : tstate[t] \in {"unborn", "joined"}
    /\ h \in Range(buffer) /\ kind[h] # "null" /\ execCount[h] = 0

\* C13: enqueue() after shutdown() still appends the job at the tail of the
\* buffer, and a job left in the buffer of a pool that has been shut down is
\* never executed by any worker.
StrandedNeverExecuted ==
    /\ [][(/\ cop[Client] = "enqueue" /\ pc[Client] = "push"
           /\ pc'[Client] = "idle" /\ closed)
             => buffer' = Append(buffer, nextH)]_vars
    /\ \A h \in Handles : [](Stranded(h) => [](execCount[h] = 0))

\* ------------------------------------------------------------------ C14
\* A step in which caller c's enqueue returns.
EnqueueReturns(c) == cop[c] = "enqueue" /\ pc'[c] = "idle"

\* C14: enqueue performs no admission control: whatever running and closed
\* are, the only thing an enqueue call does is push; the push appends the job
\* at the tail, so the buffer grows by one, and running and closed are left
\* as they were.
EnqueueAlwaysAppends ==
    /\ [](\A c \in Callers : cop[c] = "enqueue" => pc[c] = "push")
    /\ [][\A c \in Callers : EnqueueReturns(c) =>
            /\ buffer' = Append(buffer, nextH)
            /\ Len(buffer') = Len(buffer) + 1
            /\ running' = running /\ closed' = closed]_vars

\* Every worker popped the sentinel of the closed, empty queue and was joined,
\* and only well-behaved jobs were ever pushed: what is in the buffer was
\* pushed by an enqueue on the closed queue of a stopped pool.
EnqueuedWhenClosed ==
    /\ closed /\ ~running /\ nextT > 1
    /\ \A t \in Threads : tstate[t] \in {"unborn", "joined"}
    /\ \A h \in Handles : kind[h] \in {"none", "ok"}
    /\ Len(buffer) >= 1
    /\ \A c \in Callers : cret[c] = "none"

\* ------------------------------------------------------------------ C15
\* The step in which the client's start() returns after creating its workers.
StartCreates ==
    cop[Client] = "start" /\ pc[Client] = "spawn" /\ pc'[Client] = "idle"

\* C15: start(n) on a pool that is not running sets running and tracks exactly
\* max(n, 1) workers: the call goes on past its running check, and when the
\* call made with argument n returns, running is true, size() is max(n, 1),
\* that many threads were created and each is at the top of its worker loop.
StartTracksWorkers ==
    /\ [][(/\ cop[Client] = "start" /\ pc[Client] = "check" /\ ~running
           /\ pc'[Client] # pc[Client])
            => pc'[Client] = "set"]_vars
    /\ [][\A n \in 0..MaxThreads : (StartCreates /\ StartSpawn(Client, n)) =>
            /\ running'
            /\ size' = (IF n >= 1 THEN n ELSE 1)
            /\ nextT' - nextT = size'
            /\ \A i \in 1..size' : tstate'[threads'[i]] = "pop"]_vars

\* start() has returned on a pool that tracks exactly one worker.
StartedOneWorker ==
    running /\ Len(threads) = 1 /\ nextT = 2 /\ pc[Client] = "idle"

\* ------------------------------------------------------------------ C16
\* Caller c's start() is at its first statement, the test of running.
StartAtCheck(c) == cop[c] = "start" /\ pc[c] = "check"

\* C16: start(n) on a pool that is already running is a no-op: the call finds
\* running set at its first statement and returns at once, and the tracked
\* workers, size(), running, closed and the buffer are as they were; no
\* thread is created.
StartNoOpWhenRunning ==
    [][\A c \in Callers :
         (StartAtCheck(c) /\ running /\ pc'[c] # pc[c]) =>
            /\ pc'[c] = "idle"
            /\ threads' = threads /\ size' = size /\ nextT' = nextT
            /\ running' = running /\ closed' = closed /\ buffer' = buffer
            /\ tstate' = tstate]_vars

\* start() is called on a pool that is running and has workers.
StartCalledWhileRunning ==
    \E c \in Callers : StartAtCheck(c) /\ running /\ size >= 1

\* ------------------------------------------------------------------ C17
\* The step in which a shutdown() that found the pool running returns: only
\* such a call gets as far as join().
ShutdownReturns ==
    cop[Client] = "shutdown" /\ pc[Client] = "join" /\ pc'[Client] = "idle"

\* C17: when shutdown() called on a running pool returns, size() is 0,
\* isRunning() is false, the queue is closed, and every thread that start()
\* created has left its loop and been joined.
ShutdownJoinsAll ==
    [][ShutdownReturns =>
         /\ size' = 0 /\ ~isRunning' /\ closed'
         /\ \A t \in Threads : tstate'[t] \in {"unborn", "joined"}
         /\ \A t \in 1..(nextT' - 1) : tstate'[t] = "joined"]_vars

\* shutdown() has returned on a pool that had two workers.
ShutdownJoinedTwo ==
    /\ pc[Client] = "idle" /\ ~running /\ closed /\ size = 0
    /\ \A t \in Threads : tstate[t] = "joined"

\* ------------------------------------------------------------------ C18
\* Caller c's shutdown() or shutdownNow() is at its first statement, the test
\* of running.
ShutdownAtCheck(c) == cop[c] \in {"shutdown", "shutdownNow"} /\ pc[c] = "check"

\* C18: shutdown() and shutdownNow() on a pool that is not running return at
\* once and change nothing: the call finds running clear at its first
\* statement and returns in that step, without waiting for anything, and
\* running, closed, the buffer and the worker collection are as they were.
ShutdownNoOpWhenIdle ==
    [][\A c \in Callers :
         (ShutdownAtCheck(c) /\ ~running /\ pc'[c] # pc[c]) =>
            /\ pc'[c] = "idle"
            /\ running' = running /\ closed' = closed /\ buffer' = buffer
            /\ threads' = threads /\ nextT' = nextT /\ tstate' = tstate
            /\ closeCalls' = closeCalls]_vars

\* shutdownNow() is called on a pool that has already been shut down.
ShutdownCalledAgain ==
    \E c \in Callers :
        /\ cop[c] = "shutdownNow" /\ pc[c] = "check"
        /\ ~running /\ closed /\ nextT > 1 /\ size = 0

\* ------------------------------------------------------------------ C19
\* The client's shutdownNow() has closed the queue and is waiting in join().
ClosedByShutdownNow == cop[Client] = "shutdownNow" /\ pc[Client] = "join"

\* C19: shutdownNow() closes the queue right after clearing running, without
\* waiting for the buffer to drain; closing removes nothing from the buffer;
\* a worker is handed an empty handle by pop only when nothing is left in
\* the buffer;
\* and every job that is in the buffer when shutdownNow() has closed the
\* queue is executed.
CloseKeepsJobs ==
    /\ [][(cop[Client] = "shutdownNow" /\ pc[Client] = "stop"
              /\ pc'[Client] # pc[Client]) => pc'[Client] = "close"]_vars
    /\ [][(pc[Client] = "close" /\ pc'[Client] = "join")
              => (closed' /\ buffer' = buffer)]_vars
    /\ [][\A t \in Threads :
            (PopReturns(t) /\ (tjob'[t] = Sentinel \/ kind[tjob'[t]] = "null"))
               => buffer' = <<>>]_vars
    /\ \A h \in Handles :
          (ClosedByShutdownNow /\ h \in Range(buffer) /\ kind[h] # "null")
             ~> (execCount[h] >= 1)

\* ------------------------------------------------------------------ C20
\* A step in which the client's shutdown() or shutdownNow() returns.
StopReturns ==
    /\ cop[Client] \in {"shutdown", "shutdownNow"}
    /\ pc[Client] # "idle" /\ pc'[Client] = "idle"

\* C20: shutdown never preempts in-flight work: a worker inside execute() leaves
\* it only by execute() returning or throwing, never by being stopped or
\* joined; a thread that has left its loop holds no job; and when shutdown()
\* or shutdownNow() returns no worker is inside execute() and size() is 0.
NoPreemption ==
    /\ [][\A t \in Threads :
            (tstate[t] = "exec" /\ tstate'[t] # "exec") =>
               /\ tstate'[t] = AfterExecute(kind[tjob[t]])
               /\ execCount' = execCount]_vars
    /\ [](\A t \in Threads :
            tstate[t] \in {"exited", "joined"} => tjob[t] = Sentinel)
    /\ [][StopReturns =>
            /\ \A t \in Threads : tstate'[t] \notin {"got", "exec"}
            /\ size' = 0]_vars

\* shutdownNow() has closed the queue and waits in join() while a worker is
\* still inside execute().
JoinWaitsForExecute ==
    /\ cop[Client] = "shutdownNow" /\ pc[Client] = "join"
    /\ \E t \in Threads : tstate[t] = "exec" /\ t \in Range(threads)

\* ------------------------------------------------------------------ C21
\* The client's shutdown() or shutdownNow() found the pool running and is
\* about to clear running.
StopBegun == cop[Client] \in {"shutdown", "shutdownNow"} /\ pc[Client] = "stop"

\* C21: shutdown always terminates: a shutdown() or shutdownNow() that found
\* the pool running eventually returns with every worker joined and no worker
\* tracked; and the drain wait of shutdown() is left only towards closing the
\* queue, on an empty buffer or on the timeout.
ShutdownTerminates ==
    /\ StopBegun ~>
          (/\ pc[Client] = "idle" /\ size = 0
           /\ \A t \in Threads : tstate[t] \in {"unborn", "joined"})
    /\ [][(pc[Client] = "drain" /\ pc'[Client] # "drain")
             => pc'[Client] = "close"]_vars

\* ------------------------------------------------------------------ C22
\* The window of a graceful shutdown: running is clear, the queue still open.
DrainWindow == ~running /\ ~closed

\* C22: shutdown() proceeds in this order: it clears running, then waits in
\* its drain loop, closes the queue only from that loop (buffer seen empty,
\* or timeout), then joins the workers and returns.  While running is clear
\* and the queue open, a worker that calls pop on a non-empty buffer gets its
\* head, a worker holding a job enters execute(), and a tryEnqueue that begins
\* returns false at once.
GracefulOrder ==
    /\ [][\A c \in Callers : (cop[c] = "shutdown" /\ pc'[c] # pc[c]) =>
            \/ pc[c] = "check" /\ pc'[c] \in {"stop", "idle"}
            \/ pc[c] = "stop" /\ pc'[c] = "drain" /\ ~running'
            \/ pc[c] = "drain" /\ pc'[c] = "close" /\ closed' = closed
            \/ pc[c] = "close" /\ pc'[c] = "join" /\ closed'
            \/ pc[c] = "join" /\ pc'[c] = "idle" /\ size' = 0]_vars
    /\ [][\A t \in Threads :
            (DrainWindow /\ buffer # <<>> /\ tstate[t] = "pop"
                /\ tstate'[t] # "pop")
               => (tstate'[t] = "got" /\ tjob'[t] = Head(buffer))]_vars
    /\ [][\A t \in Threads :
            (DrainWindow /\ tstate[t] = "got" /\ ~IsNullPtr(tjob[t])
                /\ tstate'[t] # "got")
               => (tstate'[t] = "exec" /\ execCount'[tjob[t]] = 1)]_vars
    /\ [][\A c \in Callers :
            (DrainWindow /\ cop[c] = "tryEnqueue" /\ pc[c] = "rd_running"
                /\ pc'[c] # pc[c])
               => (pc'[c] = "idle" /\ cret'[c] = "false" /\ buffer' = buffer)]_vars

\* A shutdown() is in its drain loop with running clear and the queue open,
\* a worker is executing a job, and the other caller's tryEnqueue was
\* rejected.
InDrainWindow ==
    \E c, d \in Callers :
        /\ cop[c] = "shutdown" /\ pc[c] = "drain" /\ DrainWindow
        /\ pc[d] = "idle" /\ cret[d] = "false" /\ ~cadmit[d]
        /\ \E t \in Threads : tstate[t] = "exec"

\* ------------------------------------------------------------------ C23
\* Worker t leaves `while (true)` in this step.
WorkerLeaves(t) ==
    /\ tstate[t] \in {"pop", "waiting", "woken", "got", "exec"}
    /\ tstate'[t] \in {"exited", "aborted"}

\* C23: a worker leaves its loop only at `if (!job) break;`, holding the
\* empty pointer of a pop that returned on a closed queue with an empty
\* buffer: the queue is closed when it leaves, and the handle it tested is
\* the sentinel of such a pop, never one taken from the buffer.
ExitOnlyOnSentinel ==
    /\ [][\A t \in Threads : WorkerLeaves(t) =>
            (tstate[t] = "got" /\ tstate'[t] = "exited"
                /\ tjob[t] = Sentinel /\ closed)]_vars
    /\ [][\A t \in Threads : (PopReturns(t) /\ tjob'[t] = Sentinel) =>
            (closed /\ buffer = <<>> /\ buffer' = buffer)]_vars

\* ------------------------------------------------------------------ C24
\* The consumers that are blocked in cv.wait and have not been notified.
Blocked == {t \in Threads : tstate[t] = "waiting"}

\* The consumers that are inside pop(), notified or not.
Popping == {t \in Threads : InPop(t)}

\* C24: no wake-up is lost with several consumers.  A push wakes exactly one
\* blocked consumer if there is one and never more; closing the queue leaves
\* no consumer blocked; a pop that returns on an empty buffer returns the
\* sentinel of a closed queue and dequeues nothing; the consumers that are
\* not blocked are never fewer than the queued jobs (or all of them); and
\* when n jobs are queued and n consumers are inside pop(), n more handles
\* are eventually dequeued unless a clear() drops jobs first.
NoLostWakeup ==
    /\ [][nextH' # nextH =>
            /\ Cardinality(Blocked \ Blocked') <= 1
            /\ Blocked # {} => Blocked \ Blocked' # {}]_vars
    /\ [][(~closed /\ closed') => Blocked' = {}]_vars
    /\ [][\A t \in Threads : (PopReturns(t) /\ buffer = <<>>) =>
            (closed /\ tjob'[t] = Sentinel /\ popped' = popped)]_vars
    /\ [](Cardinality(Threads \ Blocked) >= Min(Len(buffer), Cardinality(Threads)))
    /\ \A n \in 1..MaxThreads, p, d \in 0..MaxJobs :
          (/\ Len(buffer) >= n /\ Cardinality(Popping) >= n
           /\ Len(popped) = p /\ Cardinality(Dropped) = d)
             ~> (Len(popped) >= p + n \/ Cardinality(Dropped) > d)

\* Two consumers were blocked, two pushes woke one each, and one of the two
\* has returned the first job while the other is on its way out of cv.wait.
TwoPushesWokeTwo ==
    \E t, u \in Threads :
        /\ tstate[t] = "got" /\ tjob[t] = 1 /\ tstate[u] = "woken"
        /\ buffer = <<2>> /\ ~closed /\ nextH = 3

\* ------------------------------------------------------------------ C25
\* How many times handle h occurs in sequence s.
Occurrences(s, h) == Cardinality({i \in 1..Len(s) : s[i] = h})

\* The threads that hold handle h, popped and not yet let go.
Holders(h) == {t \in Threads : tjob[t] = h}

\* C25: exclusive ownership is conserved.  Every handle pushed so far is in
\* exactly one place: once in the buffer; or popped once and held by exactly
\* one thread; or popped once and let go; or dropped by clear().  No handle
\* is in the buffer twice, popped twice or held by two threads, and a handle
\* leaves the buffer only by a pop that hands it to one thread or by a
\* clear() that empties the buffer.
OwnershipConserved ==
    /\ [](\A h \in Handles :
            IF h < nextH
            THEN /\ Occurrences(buffer, h) + Occurrences(popped, h) <= 1
                 /\ Cardinality(Holders(h)) <= 1
                 /\ Holders(h) # {} =>
                       (Occurrences(popped, h) = 1 /\ Occurrences(buffer, h) = 0)
            ELSE /\ Occurrences(buffer, h) + Occurrences(popped, h) = 0
                 /\ Holders(h) = {})
    /\ [][\A h \in Range(buffer) \ Range(buffer') :
            \/ /\ popped' = Append(popped, h)
               /\ \E t \in Threads : tjob'[t] = h /\ tjob[t] # h
               /\ buffer' = Tail(buffer) /\ h = Head(buffer)
            \/ buffer' = <<>> /\ popped' = popped /\ tjob' = tjob]_vars
    /\ [][nextH' # nextH =>
            (buffer' = Append(buffer, nextH) /\ popped' = popped
                /\ tjob' = tjob)]_vars

\* Of three handles pushed, the first was dropped by clear(), the second is
\* held by a consumer and the third is in the buffer.
OneDroppedOneHeldOneQueued ==
    /\ nextH = 4 /\ Dropped = {1} /\ buffer = <<3>>
    /\ \E t \in Threads : tstate[t] = "got" /\ tjob[t] = 2

\* ------------------------------------------------------------------ C26
\* A step of clear(): the only operation that changes the buffer without
\* pushing or popping.
ClearStep == buffer' # buffer /\ nextH' = nextH /\ popped' = popped

\* C26: clear() empties the buffer and changes nothing else: the closed flag
\* keeps its value, no consumer changes state (one blocked in cv.wait stays
\* blocked), what consumers hold and what was popped is untouched.  A job
\* dropped by clear() stays dropped: it is never popped, held or executed.
ClearFrame ==
    /\ [][ClearStep =>
            /\ buffer' = <<>>
            /\ closed' = closed /\ closeCalls' = closeCalls
            /\ tstate' = tstate /\ tjob' = tjob
            /\ kind' = kind /\ execCount' = execCount]_vars
    /\ [][Dropped \subseteq Dropped']_vars
    /\ [](\A h \in Dropped : Holders(h) = {} /\ execCount[h] = 0)

\* clear() dropped two queued jobs on an open queue while one consumer was
\* blocked in cv.wait and the other one woken: both are where they were.
ClearedWhileBlocked ==
    /\ Dropped = {1, 2} /\ buffer = <<>> /\ ~closed /\ nextH = 3 /\ popped = <<>>
    /\ \E t, u \in Threads : tstate[t] = "waiting" /\ tstate[u] = "woken"

\* ------------------------------------------------------------------ C27
\* The client is inside a join() that it called itself.
InJoin == cop[Client] = "join" /\ pc[Client] = "join"

\* That join() returns in this step.
JoinReturns == InJoin /\ pc'[Client] = "idle"

\* C27: a join() called by the client returns only after every tracked
\* worker has left its loop and been joined, and then size() is 0; with no
\* worker tracked it can return at once and its return changes nothing but
\* the caller's position; no step taken while the client is in join()
\* changes running or closed, so a join() that had workers to wait for
\* returns only on a closed queue.
JoinContract ==
    /\ [][JoinReturns =>
            /\ \A i \in 1..Len(threads) : tstate[threads[i]] = "joined"
            /\ size' = 0]_vars
    /\ [](InJoin /\ threads = <<>> => ENABLED JoinClear(Client))
    /\ [][(JoinReturns /\ threads = <<>>) =>
            UNCHANGED <<qvars, execCount, running, threads, nextT, tstate>>]_vars
    /\ [][InJoin => (running' = running /\ closed' = closed)]_vars
    /\ [][(JoinReturns /\ threads # <<>>) => closed]_vars

\* ------------------------------------------------------------------ C28
\* The step in which the client's shutdown() or shutdownNow() returns after
\* joining at least one worker, the queue having been closed by this call
\* only: every enqueue came before the close.
FirstStopReturns ==
    /\ cop[Client] \in {"shutdown", "shutdownNow"}
    /\ pc[Client] = "join" /\ pc'[Client] = "idle"
    /\ threads # <<>> /\ closeCalls = 1

\* C28: both shutdown variants drain the backlog: when shutdown() or
\* shutdownNow() returns on a pool with at least one worker, and nothing was
\* enqueued after the queue was closed, the buffer is empty and every job
\* enqueued has been executed.
BacklogDrained ==
    [][FirstStopReturns =>
          /\ buffer' = <<>>
          /\ \A h \in 1..(nextH - 1) :
                kind[h] # "null" => execCount'[h] >= 1]_vars

\* ------------------------------------------------------------------ C29
\* Caller c has passed the running check of shutdown() or shutdownNow() and
\* has not returned yet.
Stopping(c) ==
    /\ cop[c] \in {"shutdown", "shutdownNow"}
    /\ pc[c] \in {"stop", "drain", "close", "join"}

\* C29: concurrent shutdown is safe: of two callers of shutdown() or
\* shutdownNow() at most one is past the running check at any time, so the
\* close-and-join sequence, and with it the loop over the worker collection
\* and its clear(), is never run by two callers at once.
OneStopperAtATime ==
    \A c, d \in Callers : (c # d) => ~(Stopping(c) /\ Stopping(d))

\* ------------------------------------------------------------------ C30
\* The client's start(n) creates its workers in this step on a pool whose
\* queue an earlier shutdown() or shutdownNow() has closed.
Restarts(n) == closed /\ StartCreates /\ StartSpawn(Client, n)

Quiescent == pc[Client] = "idle"

\* The shutdown() that ~ThreadPool() calls would return at its running check.
DestructorSkips == PoolIdle(running)

\* C31: no worker thread is left unjoined at destruction.  Whenever no pool
\* operation is in progress and running is false, so that the destructor's
\* shutdown() would do nothing, the worker collection is empty and every
\* thread that was ever created has been joined.
NothingLeftToJoin ==
    (Quiescent /\ DestructorSkips) =>
        /\ size = 0
        /\ \A t \in Threads : tstate[t] \in {"unborn", "joined"}

\* The pool was started with two workers and shut down: the client is
\* between calls, running is false, and both workers have been joined.
StoppedAndJoined ==
    /\ Quiescent /\ ~running /\ size = 0 /\ closed
    /\ \A t \in Threads : tstate[t] = "joined"

====
